---- MODULE Spec2Model ----
(***************************************************************************)
(* The nft-candy-machine program (src/rust/nft-candy-machine/src/lib.rs):  *)
(* the config account with its byte-packed array of config lines, the      *)
(* candy machine account, and the four instructions initialize_config,     *)
(* add_config_lines, initialize_candy_machine and mint_nft.                *)
(***************************************************************************)
EXTENDS Integers, Sequences, FiniteSets, TLC

(***************************************************************************)
(* Program constants.                                                      *)
(***************************************************************************)
MAX_NAME_LENGTH == 32
MAX_URI_LENGTH == 200
MAX_SYMBOL_LENGTH == 10
MAX_CREATOR_LIMIT == 5
MAX_CREATOR_LEN == 34
UUID_LENGTH == 6
\* bytes of a usize on the 64-bit target the program is built for
USIZE_BYTES == 8

CONFIG_ARRAY_START ==
    1 + 32 + 4 + 6 + 4 + MAX_SYMBOL_LENGTH + 2
      + 1 + 4 + MAX_CREATOR_LIMIT * MAX_CREATOR_LEN + 8 + 1 + 1 + 4

CONFIG_LINE_SIZE == 4 + MAX_NAME_LENGTH + 4 + MAX_URI_LENGTH

(***************************************************************************)
(* Bounds of the model.                                                    *)
(***************************************************************************)
\* largest max_number_of_lines a config is created with
MaxLines == 2
\* add_config_lines is explored while the stored count stays within this
MaxCount == 3
\* most config lines in one add_config_lines call
MaxBatch == 2
\* largest items_available of a candy machine
MaxItems == 2
\* the clock runs from 0 to MaxTime
MaxTime == 2

(***************************************************************************)
(* Bytes and strings. A string is the sequence of its bytes.               *)
(***************************************************************************)
Zeroes(n) == [i \in 1..n |-> 0]

Rep(n, b) == [i \in 1..n |-> b]

\* u32::to_le_bytes: the four low-order bytes, least significant first
to_le_bytes(n) ==
    << n % 256, (n \div 256) % 256, (n \div 65536) % 256, (n \div 16777216) % 256 >>

\* u32::from_le_bytes
from_le_bytes(b) == b[1] + 256 * b[2] + 65536 * b[3] + 16777216 * b[4]

\* Rust's data[a..b] on the bytes of the config account that start at
\* CONFIG_ARRAY_START (tail[1] is data[CONFIG_ARRAY_START])
Slice(tail, a, b) == SubSeq(tail, a - CONFIG_ARRAY_START + 1, b - CONFIG_ARRAY_START)

\* data.len() of a config account whose tail is `tail`
DataLen(tail) == CONFIG_ARRAY_START + Len(tail)

\* mutant: the bytes before the range are zeroed
CopyFromSlice_ClearsBefore(tail, a, b, src) ==
    Zeroes(a - CONFIG_ARRAY_START) \o src
        \o SubSeq(tail, b - CONFIG_ARRAY_START + 1, Len(tail))

\* data[a..b].copy_from_slice(src), with Len(src) = b - a
CopyFromSlice(tail, a, b, src) ==
    SubSeq(tail, 1, a - CONFIG_ARRAY_START) \o src
        \o SubSeq(tail, b - CONFIG_ARRAY_START + 1, Len(tail))

(***************************************************************************)
(* ConfigLine and its borsh encoding.                                      *)
(***************************************************************************)
ConfigLine(name, uri) == [name |-> name, uri |-> uri]

\* borsh of a String: u32 little-endian length, then the bytes
BorshString(s) == to_le_bytes(Len(s)) \o s

\* ConfigLine::try_to_vec for one line
BorshConfigLine(line) == BorshString(line.name) \o BorshString(line.uri)

\* a byte of the form 10xxxxxx
Continuation(s, i) == i <= Len(s) /\ s[i] >= 128 /\ s[i] <= 191

\* the bytes of s from the i-th on are well-formed UTF-8, as
\* String::from_utf8 requires: no overlong form, no surrogate, nothing above
\* U+10FFFF
RECURSIVE Utf8From(_, _)
Utf8From(s, i) ==
    IF i > Len(s) THEN TRUE
    ELSE LET b == s[i] IN
         IF b < 128 THEN Utf8From(s, i + 1)
         ELSE IF b >= 194 /\ b <= 223
         THEN Continuation(s, i + 1) /\ Utf8From(s, i + 2)
         ELSE IF b >= 224 /\ b <= 239
         THEN /\ Continuation(s, i + 1)
              /\ b = 224 => s[i + 1] >= 160
              /\ b = 237 => s[i + 1] <= 159
              /\ Continuation(s, i + 2)
              /\ Utf8From(s, i + 3)
         ELSE IF b >= 240 /\ b <= 244
         THEN /\ Continuation(s, i + 1)
              /\ b = 240 => s[i + 1] >= 144
              /\ b = 244 => s[i + 1] <= 143
              /\ Continuation(s, i + 2)
              /\ Continuation(s, i + 3)
              /\ Utf8From(s, i + 4)
         ELSE FALSE

\* String::from_utf8 accepts the bytes
ValidUtf8(s) == (\A i \in 1..Len(s) : s[i] < 128) \/ Utf8From(s, 1)

\* ConfigLine::try_from_slice: both Strings are read, each a u32 length and
\* as many bytes, which must be UTF-8; bytes left over are an error ("Not all
\* bytes read")
try_from_slice(bytes) ==
    IF Len(bytes) < 4 THEN [err |-> "BorshIoError"]
    ELSE LET n1 == from_le_bytes(SubSeq(bytes, 1, 4)) IN
     IF Len(bytes) < 4 + n1 + 4 THEN [err |-> "BorshIoError"]
     ELSE LET n2 == from_le_bytes(SubSeq(bytes, 4 + n1 + 1, 4 + n1 + 4)) IN
      IF Len(bytes) # 4 + n1 + 4 + n2 THEN [err |-> "BorshIoError"]
      ELSE LET name == SubSeq(bytes, 5, 4 + n1)
               uri == SubSeq(bytes, 4 + n1 + 5, 4 + n1 + 4 + n2)
           IN IF ~ValidUtf8(name) \/ ~ValidUtf8(uri) THEN [err |-> "BorshIoError"]
              ELSE [err |-> "Ok", line |-> ConfigLine(name, uri)]

(***************************************************************************)
(* The config account: the Config struct and, from CONFIG_ARRAY_START on,  *)
(* the u32 count and max_number_of_lines slots of CONFIG_LINE_SIZE bytes.  *)
(***************************************************************************)
\* bytes of the account taken by the Config struct as it is serialized: the
\* 8-byte account discriminator, bump, authority and ConfigData
ConfigSize(data) ==
    8 + 1 + 32 + (4 + Len(data.uuid)) + (4 + Len(data.symbol)) + 2
      + (4 + Len(data.creators) * MAX_CREATOR_LEN) + 8 + 1 + 1 + 4

\* the u32 stored at CONFIG_ARRAY_START
get_config_count(tail) ==
    from_le_bytes(Slice(tail, CONFIG_ARRAY_START, CONFIG_ARRAY_START + 4))

\* the bytes of slot `index`
SlotBytes(tail, index) ==
    Slice(tail, CONFIG_ARRAY_START + 4 + index * CONFIG_LINE_SIZE,
                CONFIG_ARRAY_START + 4 + (index + 1) * CONFIG_LINE_SIZE)

get_config_line(tail, index) ==
    LET total == get_config_count(tail) IN
    IF index > total THEN [err |-> "IndexGreaterThanLength"]
    ELSE IF CONFIG_ARRAY_START + 4 + (index + 1) * CONFIG_LINE_SIZE > DataLen(tail)
         THEN [err |-> "Panic"]      \* slice range past the end of the data
         ELSE try_from_slice(SlotBytes(tail, index))

\* mutant: a string longer than width is cut to width
PadTo_Truncate(s, width, overflow_checks) ==
    [err |-> "Ok", str |-> SubSeq(s \o Zeroes(width), 1, width)]

\* `s` followed by (width - s.len()) zero bytes. The subtraction is on usize:
\* when s is longer than width it panics in a build with overflow checks and
\* wraps in a build without, where the loop then pushes zeroes until the
\* program runs out of heap.
PadTo(s, width, overflow_checks) ==
    IF Len(s) > width
    THEN [err |-> IF overflow_checks THEN "Panic" ELSE "ProgramFailedToComplete"]
    ELSE [err |-> "Ok", str |-> s \o Zeroes(width - Len(s))]

\* the loop of add_config_lines over config_lines: the first line that cannot
\* be padded ends the instruction
RECURSIVE FixLines(_, _)
FixLines(config_lines, overflow_checks) ==
    IF config_lines = << >> THEN [err |-> "Ok", lines |-> << >>]
    ELSE LET name == PadTo(Head(config_lines).name, MAX_NAME_LENGTH, overflow_checks)
             uri == PadTo(Head(config_lines).uri, MAX_URI_LENGTH, overflow_checks)
         IN IF name.err # "Ok" THEN [err |-> name.err]
            ELSE IF uri.err # "Ok" THEN [err |-> uri.err]
            ELSE LET rest == FixLines(Tail(config_lines), overflow_checks) IN
                 IF rest.err # "Ok" THEN rest
                 ELSE [err |-> "Ok",
                       lines |-> << ConfigLine(name.str, uri.str) >> \o rest.lines]

\* fixed_config_lines.try_to_vec() without its leading u32
RECURSIVE Serialized(_)
Serialized(lines) ==
    IF lines = << >> THEN << >>
    ELSE BorshConfigLine(Head(lines)) \o Serialized(Tail(lines))

\* index > config.data.max_number_of_lines - 1, on u32: with
\* max_number_of_lines = 0 the subtraction panics in a build with overflow
\* checks and wraps to u32::MAX in a build without, which no index exceeds
IndexCheck(index, max_number_of_lines, overflow_checks) ==
    IF max_number_of_lines = 0
    THEN IF overflow_checks THEN "Panic" ELSE "Ok"
    ELSE IF index > max_number_of_lines - 1 THEN "IndexGreaterThanLength" ELSE "Ok"

\* get_config_count as the bytes of the usize it returns: the u32 widened
\* with zero bytes, least significant first
CountBytes(tail) ==
    Slice(tail, CONFIG_ARRAY_START, CONFIG_ARRAY_START + 4) \o Zeroes(USIZE_BYTES - 4)

\* b + n on little-endian bytes: the bytes of the sum, and what is carried
\* out of the last one
RECURSIVE AddLE(_, _)
AddLE(b, n) ==
    IF b = << >> THEN [bytes |-> << >>, carry |-> n]
    ELSE LET sum == Head(b) + n
             rest == AddLE(Tail(b), sum \div 256)
         IN [bytes |-> << sum % 256 >> \o rest.bytes, carry |-> rest.carry]

\* usize::checked_add: None when the sum does not fit the usize
checked_add(b, n) ==
    LET sum == AddLE(b, n) IN
    IF sum.carry # 0 THEN [some |-> FALSE] ELSE [some |-> TRUE, val |-> sum.bytes]

\* (new_count as u32).to_le_bytes(): the four low-order bytes of the usize
NewCount(new_count) == SubSeq(new_count, 1, 4)

\* the instruction on the bytes of the config account: [err, tail]
add_config_lines(cfg, index, config_lines, overflow_checks) ==
    LET current_count == CountBytes(cfg.tail)
        check == IndexCheck(index, cfg.data.max_number_of_lines, overflow_checks)
        fixed == FixLines(config_lines, overflow_checks)
        position == CONFIG_ARRAY_START + 4 + index * CONFIG_LINE_SIZE
    IN  IF check # "Ok" THEN [err |-> check, tail |-> cfg.tail]
        ELSE IF fixed.err # "Ok" THEN [err |-> fixed.err, tail |-> cfg.tail]
        ELSE LET end == position + Len(fixed.lines) * CONFIG_LINE_SIZE IN
             IF end > DataLen(cfg.tail)
             THEN [err |-> "Panic", tail |-> cfg.tail]  \* slice range past the end
             ELSE LET written == CopyFromSlice(cfg.tail, position, end,
                                               Serialized(fixed.lines))
                      new_count == checked_add(current_count, Len(fixed.lines))
                  IN IF ~new_count.some
                     THEN [err |-> "NumericalOverflowError", tail |-> written]
                     ELSE [err |-> "Ok",
                           tail |-> CopyFromSlice(written, CONFIG_ARRAY_START,
                                                  CONFIG_ARRAY_START + 4,
                                                  NewCount(new_count.val))]

(***************************************************************************)
(* Accounts of the model: the keys, what the token accounts hold, and the  *)
(* inputs the instructions are called with.                                *)
(***************************************************************************)
None == [some |-> FALSE]

Some(v) == [some |-> TRUE, val |-> v]

\* the signers that mint; "operator" is the authority of the config
Payers == {"operator", "alice"}

\* spl-token accounts and the mint each one holds
TokenMintOf ==
    [alice_tok |-> "MintA", alice_tokB |-> "MintB", treasury_tok |-> "MintA",
     blank_tok |-> "MintA"]

TokenAccounts == DOMAIN TokenMintOf

\* blank_tok is allocated to the token program but was never initialized
TokenInitialized == [k \in TokenAccounts |-> k # "blank_tok"]

InitialLamports == [operator |-> 2, alice |-> 3, treasury |-> 1]

InitialTokens == [alice_tok |-> 3, alice_tokB |-> 3, treasury_tok |-> 0, blank_tok |-> 0]

Prices == {1, 2}

GoLiveDates == {None} \cup {Some(t) : t \in 1..MaxTime}

Uuids == {Rep(5, 48), Rep(UUID_LENGTH, 48)}

Creator(address, share) == [address |-> address, share |-> share]

CreatorInputs ==
    { << Creator("artist", 100) >>,
      [i \in 1..MAX_CREATOR_LIMIT |-> Creator("artist", 20)] }

\* config lines that fit their fields: empty, short, and of the full width
ValidLines ==
    << ConfigLine(<< 97 >>, << 117 >>),
       ConfigLine(Rep(MAX_NAME_LENGTH, 98), Rep(MAX_URI_LENGTH, 118)),
       ConfigLine(<< >>, << >>) >>

\* config lines with a name or a uri one byte too long
LongLines ==
    { ConfigLine(Rep(MAX_NAME_LENGTH + 1, 97), << 117 >>),
      ConfigLine(<< 97 >>, Rep(MAX_URI_LENGTH + 1, 117)) }

\* n consecutive lines of ValidLines, taken cyclically from the k-th
Run(k, n) == [i \in 1..n |-> ValidLines[((k + i - 2) % Len(ValidLines)) + 1]]

\* what add_config_lines is called with: no line, every run of up to
\* MaxBatch valid lines, and a too-long line alone or after a valid one
Batches ==
    { Run(k, n) : k \in 1..Len(ValidLines), n \in 0..MaxBatch }
        \cup { << l >> : l \in LongLines }
        \cup { << ValidLines[1], l >> : l \in LongLines }

(***************************************************************************)
(* State.                                                                  *)
(***************************************************************************)
VARIABLES
    config,            \* the config account: Config struct and the bytes after it
    candy_machine,     \* the candy machine account
    lamports,          \* lamports of each system account
    tokens,            \* amount of each token account
    clock,             \* Clock::unix_timestamp
    minted,            \* number of mint_nft instructions that returned Ok
    result,            \* the last instruction and what it returned
    inflight           \* per payer, the mint_nft transaction the runtime has loaded

vars == << config, candy_machine, lamports, tokens, clock, minted, result, inflight >>

NoConfig == [exists |-> FALSE]

NoCandyMachine == [exists |-> FALSE]

Idle == [busy |-> FALSE]

Init ==
    /\ config = NoConfig
    /\ candy_machine = NoCandyMachine
    /\ lamports = InitialLamports
    /\ tokens = InitialTokens
    /\ clock = 0
    /\ minted = 0
    /\ result = [op |-> "none", err |-> "Ok"]
    /\ inflight = [p \in Payers |-> Idle]

\* Whether the program is built with overflow checks is not fixed by the
\* source: every instruction is explored under both builds.

(***************************************************************************)
(* The runtime commits what an instruction wrote only when it returns Ok.  *)
(***************************************************************************)
\* mutant: writes are kept whatever the instruction returns
Commit_Always(err, before, after) == after

Commit(err, before, after) == IF err = "Ok" THEN after ELSE before

(***************************************************************************)
(* initialize_config                                                       *)
(***************************************************************************)
initialize_config(authority, bump, data, checks) ==
    LET symbol == PadTo(data.symbol, MAX_SYMBOL_LENGTH, checks) IN
    IF Len(data.uuid) # UUID_LENGTH THEN [err |-> "UuidMustBeExactly6Length"]
    ELSE IF symbol.err # "Ok" THEN [err |-> symbol.err]
    ELSE IF Len(data.creators) > MAX_CREATOR_LIMIT - 1 THEN [err |-> "TooManyCreators"]
    ELSE [err |-> "Ok",
          config |-> [exists |-> TRUE, bump |-> bump, authority |-> authority,
                      data |-> [data EXCEPT !.symbol = symbol.str],
                      \* space = CONFIG_ARRAY_START + 4 + lines * CONFIG_LINE_SIZE, zeroed
                      tail |-> Zeroes(4 + data.max_number_of_lines * CONFIG_LINE_SIZE)]]

ConfigDataInputs(line_counts) ==
    [uuid : Uuids, symbol : {<< 83, 89, 77 >>}, seller_fee_basis_points : {500},
     creators : CreatorInputs, max_supply : {0}, is_mutable : {TRUE},
     retain_authority : {FALSE}, max_number_of_lines : line_counts]

InitializeConfig(line_counts) ==
    /\ ~config.exists
    /\ \E data \in ConfigDataInputs(line_counts), overflow_checks \in BOOLEAN :
         LET r == initialize_config("operator", 255, data, overflow_checks) IN
         /\ config' = IF r.err = "Ok" THEN r.config ELSE config
         /\ result' = [op |-> "initialize_config", err |-> r.err]
    /\ UNCHANGED << candy_machine, lamports, tokens, clock, minted, inflight >>

(***************************************************************************)
(* add_config_lines                                                        *)
(***************************************************************************)
\* the stored count is within 2^24 of the end of the u32 range
NearLimit(tail) == tail[4] = 255

AddConfigLines(indices, batches) ==
    /\ config.exists
    /\ \E index \in indices, config_lines \in batches, overflow_checks \in BOOLEAN :
         LET r == add_config_lines(config, index, config_lines, overflow_checks) IN
         /\ IF NearLimit(config.tail) THEN TRUE
            ELSE get_config_count(config.tail) + Len(config_lines) <= MaxCount
         /\ config' = [config EXCEPT !.tail = Commit(r.err, config.tail, r.tail)]
         /\ result' = [op |-> "add_config_lines", err |-> r.err, index |-> index,
                       config_lines |-> config_lines]
    /\ UNCHANGED << candy_machine, lamports, tokens, clock, minted, inflight >>

(***************************************************************************)
(* utils.rs: account checks and the spl-token transfer.                    *)
(***************************************************************************)
\* every token account and mint of the model is owned by the token program
assert_owned_by(key, owner) == IF owner = "spl_token" THEN "Ok" ELSE "IncorrectOwner"

assert_initialized(key) ==
    IF key \in TokenAccounts /\ ~TokenInitialized[key] THEN "Uninitialized" ELSE "Ok"

\* moves `amount` from source to destination; the token program rejects the
\* transfer when the authority may not move the source's tokens
spl_token_transfer(tok, source, destination, amount, authority_ok) ==
    IF ~authority_ok \/ tok[source] < amount
    THEN [err |-> "TokenTransferFailed", tokens |-> tok]
    ELSE LET debited == [tok EXCEPT ![source] = @ - amount] IN
         [err |-> "Ok", tokens |-> [debited EXCEPT ![destination] = @ + amount]]

\* system_instruction::transfer invoked on the system program
system_transfer(lam, from, to, amount, accepted) ==
    IF ~accepted \/ lam[from] < amount
    THEN [err |-> "SystemTransferError", lamports |-> lam]
    ELSE LET debited == [lam EXCEPT ![from] = @ - amount] IN
         [err |-> "Ok", lamports |-> [debited EXCEPT ![to] = @ + amount]]

(***************************************************************************)
(* initialize_candy_machine                                                *)
(***************************************************************************)
\* #[account(constraint = !wallet.data_is_empty() || wallet.lamports() > 0)]
InitializeCandyMachineConstraints(lam, wallet) ==
    wallet \in TokenAccounts \/ lam[wallet] > 0

initialize_candy_machine(cfg, authority, wallet, token_mint_info, bump, data) ==
    LET cm == [exists |-> TRUE, authority |-> authority, wallet |-> wallet,
               token_mint |-> None, config |-> "config", data |-> data,
               items_redeemed |-> 0, bump |-> bump]
        with_mint ==
            IF ~token_mint_info.some THEN [err |-> "Ok", cm |-> cm]
            ELSE IF assert_initialized(token_mint_info.val) # "Ok"
                 THEN [err |-> assert_initialized(token_mint_info.val)]
            ELSE IF assert_initialized(wallet) # "Ok"
                 THEN [err |-> assert_initialized(wallet)]
            ELSE IF assert_owned_by(token_mint_info.val, "spl_token") # "Ok"
                 THEN [err |-> "IncorrectOwner"]
            ELSE IF assert_owned_by(wallet, "spl_token") # "Ok"
                 THEN [err |-> "IncorrectOwner"]
            ELSE IF TokenMintOf[wallet] # token_mint_info.val
                 THEN [err |-> "MintMismatch"]
            ELSE [err |-> "Ok", cm |-> [cm EXCEPT !.token_mint = token_mint_info]]
        config_line == get_config_line(cfg.tail, 0)
    IN  IF Len(data.uuid) # UUID_LENGTH THEN [err |-> "UuidMustBeExactly6Length"]
        ELSE IF with_mint.err # "Ok" THEN with_mint
        ELSE IF config_line.err = "Panic" THEN [err |-> "Panic"]
        ELSE IF config_line.err # "Ok" THEN [err |-> "ConfigMustHaveAtleastOneEntry"]
        ELSE with_mint

CandyMachineDataInputs ==
    [uuid : Uuids, price : Prices, items_available : 0..MaxItems,
     go_live_date : GoLiveDates]

\* the wallet and, for a sale paid in tokens, the token mint passed with it
WalletInputs ==
    { << "treasury", None >>, << "operator", None >>,
      << "treasury_tok", Some("MintA") >>, << "alice_tokB", Some("MintA") >>,
      << "blank_tok", Some("MintA") >> }

InitializeCandyMachineWith(datas, wallets) ==
    /\ config.exists
    /\ ~candy_machine.exists
    /\ \E data \in datas, w \in wallets :
         LET r == IF InitializeCandyMachineConstraints(lamports, w[1])
                  THEN initialize_candy_machine(config, config.authority, w[1], w[2],
                                                254, data)
                  ELSE [err |-> "ConstraintRaw"]
         IN /\ candy_machine' = IF r.err = "Ok" THEN r.cm ELSE candy_machine
            /\ result' = [op |-> "initialize_candy_machine", err |-> r.err]
    /\ UNCHANGED << config, lamports, tokens, clock, minted, inflight >>

InitializeCandyMachine ==
    InitializeCandyMachineWith(CandyMachineDataInputs, WalletInputs)

(***************************************************************************)
(* mint_nft                                                                *)
(***************************************************************************)
\* mutant: the wallet passed to mint_nft is not compared with the stored one
MintNFTConstraints_AnyWallet(cm, wallet) == TRUE

\* #[account(mut, constraint = wallet.key == &candy_machine.wallet)]
MintNFTConstraints(cm, wallet) == wallet = cm.wallet

\* mutant: a sale without go_live_date is open to everyone
LiveCheck_NoneIsLive(cm, clk, payer) ==
    IF ~cm.data.go_live_date.some THEN "Ok"
    ELSE IF clk < cm.data.go_live_date.val /\ payer # cm.authority
         THEN "CandyMachineNotLiveYet" ELSE "Ok"

\* mutant: the sale is live only after go_live_date, not at it
LiveCheck_LateByOne(cm, clk, payer) ==
    IF ~cm.data.go_live_date.some
    THEN IF payer # cm.authority THEN "CandyMachineNotLiveYet" ELSE "Ok"
    ELSE IF clk <= cm.data.go_live_date.val /\ payer # cm.authority
         THEN "CandyMachineNotLiveYet" ELSE "Ok"

\* the go_live_date match: only the authority mints before the sale is live
LiveCheck(cm, clk, payer) ==
    IF ~cm.data.go_live_date.some
    THEN IF payer # cm.authority THEN "CandyMachineNotLiveYet" ELSE "Ok"
    ELSE IF clk < cm.data.go_live_date.val /\ payer # cm.authority
         THEN "CandyMachineNotLiveYet" ELSE "Ok"

\* mutant: > for >=
EmptyCheck_OffByOne(cm) ==
    IF cm.items_redeemed > cm.data.items_available THEN "CandyMachineEmpty" ELSE "Ok"

EmptyCheck(cm) ==
    IF cm.items_redeemed >= cm.data.items_available THEN "CandyMachineEmpty" ELSE "Ok"

\* mutant: the mint of the token account is not compared with token_mint
Payment_NoMintCheck(cm, lam, tok, payer, wallet, token_account, transfer_ok) ==
    IF cm.token_mint.some
    THEN IF assert_initialized(token_account) # "Ok"
         THEN [err |-> assert_initialized(token_account), lamports |-> lam, tokens |-> tok]
         ELSE IF tok[token_account] < cm.data.price
         THEN [err |-> "NotEnoughTokens", lamports |-> lam, tokens |-> tok]
         ELSE LET t == spl_token_transfer(tok, token_account, wallet, cm.data.price,
                                          transfer_ok)
              IN [err |-> t.err, lamports |-> lam, tokens |-> t.tokens]
    ELSE IF lam[payer] < cm.data.price
         THEN [err |-> "NotEnoughSOL", lamports |-> lam, tokens |-> tok]
         ELSE LET t == system_transfer(lam, payer, wallet, cm.data.price, transfer_ok)
              IN [err |-> t.err, lamports |-> t.lamports, tokens |-> tok]

\* the payment: [err, lamports, tokens]
Payment(cm, lam, tok, payer, wallet, token_account, transfer_ok) ==
    IF cm.token_mint.some
    THEN IF assert_initialized(token_account) # "Ok"
         THEN [err |-> assert_initialized(token_account), lamports |-> lam, tokens |-> tok]
         ELSE IF assert_owned_by(token_account, "spl_token") # "Ok"
         THEN [err |-> "IncorrectOwner", lamports |-> lam, tokens |-> tok]
         ELSE IF TokenMintOf[token_account] # cm.token_mint.val
         THEN [err |-> "MintMismatch", lamports |-> lam, tokens |-> tok]
         ELSE IF tok[token_account] < cm.data.price
         THEN [err |-> "NotEnoughTokens", lamports |-> lam, tokens |-> tok]
         ELSE LET t == spl_token_transfer(tok, token_account, wallet, cm.data.price,
                                          transfer_ok)
              IN [err |-> t.err, lamports |-> lam, tokens |-> t.tokens]
    ELSE IF lam[payer] < cm.data.price
         THEN [err |-> "NotEnoughSOL", lamports |-> lam, tokens |-> tok]
         ELSE LET t == system_transfer(lam, payer, wallet, cm.data.price, transfer_ok)
              IN [err |-> t.err, lamports |-> t.lamports, tokens |-> tok]

\* mutant: the counter advance also takes the price to 0
Redeem_ClearsPrice(cm) ==
    [cm EXCEPT !.items_redeemed = @ + 1, !.data.price = 0]

\* items_redeemed.checked_add(1): the u64 cannot overflow here, since
\* EmptyCheck has established items_redeemed < items_available
Redeem(cm) == [cm EXCEPT !.items_redeemed = @ + 1]

\* mutant: the config line read is the one at the counter just advanced
TemplateIndex_Redeemed(cm) == cm.items_redeemed

\* the index mint_nft passes to get_config_line
TemplateIndex(cm) == 0

\* mutant: the items check is made before the go_live_date check
mint_nft_EmptyCheckFirst(cm, cfg, clk, lam, tok, payer, wallet, token_account, cpi) ==
    LET unchanged == [candy_machine |-> cm, lamports |-> lam, tokens |-> tok,
                      issued |-> None]
        paid == Payment(cm, lam, tok, payer, wallet, token_account, cpi.transfer)
        redeemed == [candy_machine |-> Redeem(cm), lamports |-> paid.lamports,
                     tokens |-> paid.tokens]
        config_line == get_config_line(cfg.tail, TemplateIndex(Redeem(cm)))
    IN  IF EmptyCheck(cm) # "Ok" THEN [err |-> EmptyCheck(cm)] @@ unchanged
        ELSE IF LiveCheck(cm, clk, payer) # "Ok"
        THEN [err |-> LiveCheck(cm, clk, payer)] @@ unchanged
        ELSE IF paid.err # "Ok"
        THEN [err |-> paid.err, candy_machine |-> cm, lamports |-> paid.lamports,
              tokens |-> paid.tokens, issued |-> None]
        ELSE IF config_line.err # "Ok"
        THEN [err |-> config_line.err, issued |-> None] @@ redeemed
        ELSE IF ~cpi.metadata
        THEN [err |-> "CreateMetadataError", issued |-> None] @@ redeemed
        ELSE IF ~cpi.master_edition
        THEN [err |-> "CreateMasterEditionError", issued |-> None] @@ redeemed
        ELSE [err |-> "Ok", issued |-> Some(config_line.line)] @@ redeemed

\* the instruction: what it returns, the accounts as it leaves them, and the
\* config line whose name and uri it passes to create_metadata_accounts
\* (cpi: whether the transfer, create_metadata_accounts and
\* create_master_edition calls are accepted)
mint_nft(cm, cfg, clk, lam, tok, payer, wallet, token_account, cpi) ==
    LET unchanged == [candy_machine |-> cm, lamports |-> lam, tokens |-> tok,
                      issued |-> None]
        paid == Payment(cm, lam, tok, payer, wallet, token_account, cpi.transfer)
        redeemed == [candy_machine |-> Redeem(cm), lamports |-> paid.lamports,
                     tokens |-> paid.tokens]
        config_line == get_config_line(cfg.tail, TemplateIndex(Redeem(cm)))
    IN  IF LiveCheck(cm, clk, payer) # "Ok"
        THEN [err |-> LiveCheck(cm, clk, payer)] @@ unchanged
        ELSE IF EmptyCheck(cm) # "Ok" THEN [err |-> EmptyCheck(cm)] @@ unchanged
        ELSE IF paid.err # "Ok"
        THEN [err |-> paid.err, candy_machine |-> cm, lamports |-> paid.lamports,
              tokens |-> paid.tokens, issued |-> None]
        ELSE IF config_line.err # "Ok"
        THEN [err |-> config_line.err, issued |-> None] @@ redeemed
        ELSE IF ~cpi.metadata
        THEN [err |-> "CreateMetadataError", issued |-> None] @@ redeemed
        ELSE IF ~cpi.master_edition
        THEN [err |-> "CreateMasterEditionError", issued |-> None] @@ redeemed
        ELSE [err |-> "Ok", issued |-> Some(config_line.line)] @@ redeemed

CpiAccepted == [transfer |-> TRUE, metadata |-> TRUE, master_edition |-> TRUE]

\* every call accepted, or one of the three rejected
CpiOutcomes ==
    { CpiAccepted, [CpiAccepted EXCEPT !.transfer = FALSE],
      [CpiAccepted EXCEPT !.metadata = FALSE],
      [CpiAccepted EXCEPT !.master_edition = FALSE] }

\* remaining_accounts[0] is read only when the sale is paid in tokens
TokenAccountInputs(cm) == IF cm.token_mint.some THEN TokenAccounts ELSE {"none"}

\* mutant: candy_machine is declared without mut
MintNFTWritable_CandyMachineReadOnly == {"payer", "wallet"}

\* the accounts of MintNFT that are declared mut and that the program writes
MintNFTWritable == {"candy_machine", "payer", "wallet"}

\* what is written to an account is kept only if the account is writable
\* and the instruction returns Ok
Persist(account, err, before, after) ==
    IF account \in MintNFTWritable THEN Commit(err, before, after) ELSE before

\* mint_nft by `payer` on the accounts as loaded, after account validation
MintOutcome(loaded, payer, wallet, token_account, cpi) ==
    IF MintNFTConstraints(loaded.candy_machine, wallet)
    THEN mint_nft(loaded.candy_machine, config, clock, loaded.lamports, loaded.tokens,
                  payer, wallet, token_account, cpi)
    ELSE [err |-> "ConstraintRaw", candy_machine |-> loaded.candy_machine,
          lamports |-> loaded.lamports, tokens |-> loaded.tokens, issued |-> None]

\* the runtime ends a mint_nft transaction
Settle(r, payer, token_account) ==
    /\ candy_machine' = Persist("candy_machine", r.err, candy_machine, r.candy_machine)
    /\ lamports' = Persist("payer", r.err, lamports, r.lamports)
    /\ tokens' = Persist("wallet", r.err, tokens, r.tokens)
    /\ minted' = IF r.err = "Ok" THEN minted + 1 ELSE minted
    /\ result' = [op |-> "mint_nft", err |-> r.err, payer |-> payer,
                  token_account |-> token_account, issued |-> r.issued]

Accounts == [candy_machine |-> candy_machine, lamports |-> lamports, tokens |-> tokens]

\* a mint_nft transaction, run from start to end in one step
MintNft ==
    /\ config.exists
    /\ candy_machine.exists
    /\ \E payer \in Payers, wallet \in {candy_machine.wallet, "alice"},
          token_account \in TokenAccountInputs(candy_machine), cpi \in CpiOutcomes :
         Settle(MintOutcome(Accounts, payer, wallet, token_account, cpi),
                payer, token_account)
    /\ UNCHANGED << config, clock, inflight >>

(***************************************************************************)
(* mint_nft transactions submitted concurrently. The runtime locks the     *)
(* writable accounts of a transaction before it loads them, and holds the  *)
(* locks until the transaction ends.                                       *)
(***************************************************************************)
\* the keys of the accounts a mint_nft transaction of `payer` writes
WriteLocks(payer) ==
    { IF a = "payer" THEN payer
      ELSE IF a = "wallet" THEN candy_machine.wallet
      ELSE a : a \in MintNFTWritable }

\* the runtime takes the locks of the transaction and loads its accounts
Load(payer) ==
    /\ config.exists
    /\ candy_machine.exists
    /\ ~inflight[payer].busy
    /\ \A q \in Payers \ {payer} :
          inflight[q].busy => WriteLocks(payer) \cap WriteLocks(q) = {}
    /\ inflight' = [inflight EXCEPT ![payer] = [busy |-> TRUE] @@ Accounts]
    /\ UNCHANGED << config, candy_machine, lamports, tokens, clock, minted, result >>

\* the program runs on the loaded accounts; the runtime stores what it wrote
\* and releases the locks
Finish(payer) ==
    /\ inflight[payer].busy
    /\ \E wallet \in {candy_machine.wallet, "alice"},
          token_account \in TokenAccountInputs(candy_machine), cpi \in CpiOutcomes :
         Settle(MintOutcome(inflight[payer], payer, wallet, token_account, cpi),
                payer, token_account)
    /\ inflight' = [inflight EXCEPT ![payer] = Idle]
    /\ UNCHANGED << config, clock >>

\* add_config_lines writes the config account, which a loaded mint_nft reads
ConfigUnlocked == \A q \in Payers : ~inflight[q].busy

(***************************************************************************)
(* The clock sysvar only moves forward.                                    *)
(***************************************************************************)
Tick ==
    /\ clock < MaxTime
    /\ clock' = clock + 1
    /\ result' = [op |-> "tick", err |-> "Ok"]
    /\ UNCHANGED << config, candy_machine, lamports, tokens, minted, inflight >>

(***************************************************************************)
(* Specifications.                                                         *)
(***************************************************************************)
\* the config lines the sale is explored with
SaleBatches == { << ValidLines[1] >> } \cup { << l >> : l \in LongLines }

\* the sale reads slot 0 alone: its configs have at most one slot
SaleLineCounts == {0, 1}

Next ==
    \/ InitializeConfig(SaleLineCounts)
    \/ AddConfigLines(SaleLineCounts, SaleBatches)
    \/ InitializeCandyMachine
    \/ MintNft
    \/ Tick

Spec == Init /\ [][Next]_vars

\* the sale with mint_nft transactions in flight together
NextConcurrent ==
    \/ InitializeConfig(SaleLineCounts)
    \/ ConfigUnlocked /\ AddConfigLines(SaleLineCounts, SaleBatches)
    \/ InitializeCandyMachine
    \/ Tick
    \/ \E payer \in Payers : Load(payer)
    \/ \E payer \in Payers : Finish(payer)

SpecConcurrent == Init /\ [][NextConcurrent]_vars

\* the config account alone, with every batch of config lines
NextLedger ==
    \/ InitializeConfig(0..MaxLines)
    \/ AddConfigLines(0..MaxLines, Batches)

SpecLedger == Init /\ [][NextLedger]_vars

\* the sale of a config of MaxLines slots filled with lines that differ, by
\* a candy machine the operator mints from before it is live
TemplateLineCounts == {MaxLines}

TemplateBatches == { << ValidLines[1] >>, << ValidLines[2] >> }

TemplateSales ==
    [uuid : {Rep(UUID_LENGTH, 48)}, price : {1}, items_available : {MaxItems},
     go_live_date : {None}]

NextTemplates ==
    \/ InitializeConfig(TemplateLineCounts)
    \/ AddConfigLines(0..(MaxLines - 1), TemplateBatches)
    \/ InitializeCandyMachineWith(TemplateSales, {<< "treasury", None >>})
    \/ MintNft

SpecTemplates == Init /\ [][NextTemplates]_vars

\* counts at the end of the u32 range: u32::MAX - k, as the bytes stored
NearLimitCounts == { << 255 - k, 255, 255, 255 >> : k \in 0..MaxBatch }

\* a config whose count has come near u32::MAX by adding single lines at
\* index 0 over and over: slot 0 is written, the others are as allocated
InitNearLimit ==
    /\ \E lines \in 1..MaxLines, count \in NearLimitCounts :
         config = [exists |-> TRUE, bump |-> 255, authority |-> "operator",
                   data |-> [uuid |-> Rep(UUID_LENGTH, 48),
                             symbol |-> << 83, 89, 77 >> \o Zeroes(MAX_SYMBOL_LENGTH - 3),
                             seller_fee_basis_points |-> 500,
                             creators |-> << Creator("artist", 100) >>,
                             max_supply |-> 0, is_mutable |-> TRUE,
                             retain_authority |-> FALSE,
                             max_number_of_lines |-> lines],
                   tail |-> count \o BorshConfigLine(
                                        ConfigLine(<< 97 >> \o Zeroes(MAX_NAME_LENGTH - 1),
                                                   << 117 >> \o Zeroes(MAX_URI_LENGTH - 1)))
                                  \o Zeroes((lines - 1) * CONFIG_LINE_SIZE)]
    /\ candy_machine = NoCandyMachine
    /\ lamports = InitialLamports
    /\ tokens = InitialTokens
    /\ clock = 0
    /\ minted = 0
    /\ result = [op |-> "none", err |-> "Ok"]
    /\ inflight = [p \in Payers |-> Idle]

\* add_config_lines on a config whose count is near u32::MAX
NextCount == AddConfigLines(0..MaxLines, Batches)

SpecCount == InitNearLimit /\ [][NextCount]_vars

(***************************************************************************)
(* Properties of the sale (Spec).                                          *)
(***************************************************************************)
\* the step is a mint_nft instruction whose accounts passed validation
MintStep == result'.op = "mint_nft" /\ result'.err # "ConstraintRaw"

\* the payer of the step passes the go_live_date check
PassesWindow(payer) ==
    \/ payer = candy_machine.authority
    \/ /\ candy_machine.data.go_live_date.some
       /\ clock >= candy_machine.data.go_live_date.val

SoldOut ==
    /\ candy_machine.exists
    /\ candy_machine.items_redeemed = candy_machine.data.items_available

\* C1: in every reachable state items_redeemed of the candy machine is at
\* most its items_available.
C1_RedeemedAtMostAvailable ==
    candy_machine.exists =>
        candy_machine.items_redeemed <= candy_machine.data.items_available

\* a mint attempt was just refused on a candy machine whose items are all redeemed
C1_Witness ==
    /\ SoldOut
    /\ candy_machine.data.items_available = MaxItems
    /\ minted = MaxItems
    /\ result.op = "mint_nft"
    /\ result.err # "Ok"

\* C2 as stated: after as many successful mints as the candy machine has
\* items (one at least), a mint attempt fails with CandyMachineEmpty, whoever
\* makes it and whenever.
C2_SoldOutAlwaysCandyMachineEmpty ==
    [][(SoldOut /\ minted > 0 /\ MintStep) => result'.err = "CandyMachineEmpty"]_vars

\* C2 amended: a mint attempt on a candy machine with items_redeemed =
\* items_available never succeeds; it fails with CandyMachineEmpty when the
\* payer passes the go_live_date check, and with CandyMachineNotLiveYet when
\* the payer does not.
C2_SoldOutNeverMints ==
    [][(SoldOut /\ MintStep) =>
          /\ result'.err # "Ok"
          /\ minted' = minted
          /\ result'.err = IF PassesWindow(result'.payer)
                           THEN "CandyMachineEmpty"
                           ELSE "CandyMachineNotLiveYet"]_vars

\* after as many mints as there are items, one more attempt was refused as empty
C2_Witness ==
    /\ SoldOut
    /\ candy_machine.data.items_available > 0
    /\ minted = candy_machine.data.items_available
    /\ result.op = "mint_nft"
    /\ result.err = "CandyMachineEmpty"

\* C3: a payer other than the authority is refused with
\* CandyMachineNotLiveYet whenever go_live_date is absent or the clock is
\* before it, so such a payer mints only with go_live_date present and
\* reached; the authority is never refused by this check.
C3_WindowCheck ==
    [][MintStep =>
          /\ ~PassesWindow(result'.payer) => result'.err = "CandyMachineNotLiveYet"
          /\ (result'.payer # candy_machine.authority /\ result'.err = "Ok") =>
                /\ candy_machine.data.go_live_date.some
                /\ clock >= candy_machine.data.go_live_date.val
          /\ result'.payer = candy_machine.authority =>
                result'.err # "CandyMachineNotLiveYet"]_vars

\* the authority has minted before the sale is live, and another payer was
\* then refused as not live yet
C3_Witness ==
    /\ candy_machine.exists
    /\ minted > 0
    /\ ~PassesWindow("alice")
    /\ result.op = "mint_nft"
    /\ result.payer = "alice"
    /\ result.err = "CandyMachineNotLiveYet"

\* the sale has a go_live_date and the clock has reached it
Live ==
    /\ candy_machine.exists
    /\ candy_machine.data.go_live_date.some
    /\ clock >= candy_machine.data.go_live_date.val

\* C4: the phases only move forward. Once the clock has reached
\* go_live_date it stays reached and no mint attempt is refused with
\* CandyMachineNotLiveYet; once items_redeemed = items_available, both stay
\* as they are and no mint attempt succeeds.
C4_PhasesOnlyAdvance ==
    [][/\ Live =>
            /\ Live'
            /\ MintStep => result'.err # "CandyMachineNotLiveYet"
       /\ SoldOut =>
            /\ SoldOut'
            /\ candy_machine'.items_redeemed = candy_machine.items_redeemed
            /\ minted' = minted
            /\ MintStep => result'.err # "Ok"]_vars

\* a sale that went live was sold out by a payer other than the authority,
\* and a later attempt was refused
C4_Witness ==
    /\ Live
    /\ SoldOut
    /\ minted > 0
    /\ lamports["alice"] < InitialLamports["alice"]
    /\ result.op = "mint_nft"
    /\ result.err = "CandyMachineEmpty"

\* C5: with mint_nft transactions of several payers in flight, each runs on
\* the accounts as they are when it ends, as if it ran alone at that point;
\* items_redeemed counts exactly the mints that succeeded, and these never
\* exceed items_available.
C5_ConcurrentMintsSerialize ==
    /\ \A p \in Payers :
          inflight[p].busy =>
             /\ inflight[p].candy_machine = candy_machine
             /\ inflight[p].lamports = lamports
             /\ inflight[p].tokens = tokens
    /\ IF candy_machine.exists
       THEN /\ candy_machine.items_redeemed = minted
            /\ minted <= candy_machine.data.items_available
       ELSE minted = 0

\* both payers have minted, the items are all redeemed, and one more
\* transaction is loaded
C5_Witness ==
    /\ candy_machine.exists
    /\ minted = candy_machine.data.items_available
    /\ minted >= 2
    /\ lamports["alice"] < InitialLamports["alice"]
    /\ lamports["operator"] < InitialLamports["operator"]
    /\ inflight["alice"].busy

\* C6: an instruction that returns an error leaves the config account, the
\* candy machine, and every lamport and token balance as they were.
C6_ErrorLeavesStateUnchanged ==
    [][result'.err # "Ok" =>
          /\ config' = config
          /\ candy_machine' = candy_machine
          /\ lamports' = lamports
          /\ tokens' = tokens
          /\ minted' = minted]_vars

\* a mint failed in create_master_edition, after the payment and the counter
\* advance, on a sale that had sold an item before: one payment, one item
C6_Witness ==
    /\ candy_machine.exists
    /\ result.op = "mint_nft"
    /\ result.err = "CreateMasterEditionError"
    /\ candy_machine.items_redeemed = 1
    /\ minted = 1

\* the errors of a call the program delegates
DelegationErrors ==
    { "SystemTransferError", "TokenTransferFailed", "CreateMetadataError",
      "CreateMasterEditionError" }

\* the step is a mint_nft that passed account validation, the go_live_date
\* check and the items check, on a sale paid in lamports
NativePaymentStep ==
    /\ MintStep
    /\ ~candy_machine.token_mint.some
    /\ PassesWindow(result'.payer)
    /\ ~SoldOut

\* a payer with fewer lamports than the price is refused with NotEnoughSOL,
\* and one with the price or more fails only if a delegated call is rejected
NativeFundsCheck ==
    IF lamports[result'.payer] < candy_machine.data.price
    THEN result'.err = "NotEnoughSOL"
    ELSE result'.err \in {"Ok"} \cup DelegationErrors

\* C7 as stated: on a sale paid in lamports, a payer with fewer lamports than
\* the price is refused with NotEnoughSOL, and a successful mint by a payer
\* holding exactly the price leaves the stored wallet with exactly price
\* lamports more.
C7_TreasuryAlwaysGainsPrice ==
    [][NativePaymentStep =>
          /\ NativeFundsCheck
          /\ (lamports[result'.payer] = candy_machine.data.price /\ result'.err = "Ok") =>
                lamports'[candy_machine.wallet] =
                    lamports[candy_machine.wallet] + candy_machine.data.price]_vars

\* C7 amended: on a sale paid in lamports, a payer with fewer lamports than
\* the price is refused with NotEnoughSOL; a mint that succeeds moves exactly
\* price lamports from the payer to the stored wallet and leaves the tokens
\* alone, so the wallet has exactly price lamports more when the payer is not
\* the wallet itself, and the same lamports when it is.
C7_NativePayment ==
    [][NativePaymentStep =>
          /\ NativeFundsCheck
          /\ result'.err = "Ok" =>
                /\ tokens' = tokens
                /\ IF result'.payer = candy_machine.wallet
                   THEN lamports' = lamports
                   ELSE lamports' =
                          [lamports EXCEPT
                             ![result'.payer] = @ - candy_machine.data.price,
                             ![candy_machine.wallet] = @ + candy_machine.data.price]]_vars

\* a payer holding exactly the price has minted: it has no lamports left and
\* the treasury has the price more than at the start
C7_Witness ==
    /\ candy_machine.exists
    /\ ~candy_machine.token_mint.some
    /\ candy_machine.wallet = "treasury"
    /\ result.op = "mint_nft"
    /\ result.err = "Ok"
    /\ lamports[result.payer] = 0
    /\ InitialLamports[result.payer] = candy_machine.data.price
    /\ lamports["treasury"] = InitialLamports["treasury"] + candy_machine.data.price

\* the step is a mint_nft that passed account validation, the go_live_date
\* check and the items check, on a sale paid in tokens, with an initialized
\* token account
TokenPaymentStep ==
    /\ MintStep
    /\ candy_machine.token_mint.some
    /\ PassesWindow(result'.payer)
    /\ ~SoldOut
    /\ TokenInitialized[result'.token_account]

\* C8: on a sale paid in tokens, a token account of another mint is refused
\* with MintMismatch, one of the right mint holding less than the price with
\* NotEnoughTokens, and otherwise the mint fails only if a delegated call is
\* rejected; a mint that succeeds moves exactly price tokens from the token
\* account to the stored wallet and no lamports.
C8_TokenPayment ==
    [][TokenPaymentStep =>
          LET account == result'.token_account
              price == candy_machine.data.price
              debited == [tokens EXCEPT ![account] = @ - price]
          IN /\ IF TokenMintOf[account] # candy_machine.token_mint.val
                THEN result'.err = "MintMismatch"
                ELSE IF tokens[account] < price
                     THEN result'.err = "NotEnoughTokens"
                     ELSE result'.err \in {"Ok"} \cup DelegationErrors
             /\ result'.err = "Ok" =>
                   /\ tokens' = [debited EXCEPT ![candy_machine.wallet] = @ + price]
                   /\ lamports' = lamports]_vars

\* a mint paid from alice_tok succeeded: the treasury token account holds what
\* alice_tok lost, and no lamports moved
C8_Witness ==
    /\ candy_machine.exists
    /\ candy_machine.token_mint.some
    /\ result.op = "mint_nft"
    /\ result.err = "Ok"
    /\ result.token_account = "alice_tok"
    /\ tokens["alice_tok"] = InitialTokens["alice_tok"] - candy_machine.data.price
    /\ tokens[candy_machine.wallet] = candy_machine.data.price
    /\ lamports = InitialLamports

(***************************************************************************)
(* Properties of the config lines (SpecLedger).                            *)
(***************************************************************************)
\* the count stored in the config account
LiveCount == get_config_count(config.tail)

\* slot i holds a config line padded to the full widths
WellFormedSlot(i) ==
    LET line == try_from_slice(SlotBytes(config.tail, i)) IN
    /\ line.err = "Ok"
    /\ Len(line.line.name) = MAX_NAME_LENGTH
    /\ Len(line.line.uri) = MAX_URI_LENGTH

\* slot i is as the account was allocated
ZeroSlot(i) == SlotBytes(config.tail, i) = Zeroes(CONFIG_LINE_SIZE)

\* C9 as stated: the count stored in the config account never exceeds
\* max_number_of_lines.
C9_CountAtMostCapacity ==
    config.exists => LiveCount <= config.data.max_number_of_lines

\* C10 as stated: of the slots of the config account, those below the stored
\* count hold a well-formed config line and those from the count on are
\* still zero.
C10_SlotsMatchCount ==
    config.exists =>
        \A i \in 0..(config.data.max_number_of_lines - 1) :
            IF i < LiveCount THEN WellFormedSlot(i) ELSE ZeroSlot(i)

\* the step is an add_config_lines instruction that returned Ok
AddOk == result'.op = "add_config_lines" /\ result'.err = "Ok"

\* the four bytes of the count stored in the config account
Header(tail) == SubSeq(tail, 1, 4)

\* the stored count plus n does not fit a u32
ExceedsU32(tail, n) == AddLE(Header(tail), n).carry # 0

\* C11 as stated: after every add_config_lines that returns Ok, the stored
\* count is the count before the call plus the number of config lines passed
\* (compared on the bytes of the u32: the sum fits and its bytes are stored).
C11_CountAdvancesByBatch ==
    [][AddOk =>
          LET sum == AddLE(Header(config.tail), Len(result'.config_lines)) IN
          /\ sum.carry = 0
          /\ Header(config'.tail) = sum.bytes]_vars

\* the same for the adds whose sum fits a u32
C11_CountAdvancesInRange ==
    [][(AddOk /\ ~ExceedsU32(config.tail, Len(result'.config_lines))) =>
          Header(config'.tail) =
              AddLE(Header(config.tail), Len(result'.config_lines)).bytes]_vars

\* C12 as stated: after an add_config_lines that returns Ok, get_config_line
\* at each written index index + i returns Ok with exactly the name and uri
\* passed as config_lines[i], without the padding.
C12_ReadsBackUnpadded ==
    [][AddOk =>
          \A i \in 1..Len(result'.config_lines) :
              get_config_line(config'.tail, result'.index + i - 1) =
                  [err |-> "Ok", line |-> result'.config_lines[i]]]_vars

\* the step is an add_config_lines instruction whose index is at or past
\* max_number_of_lines
AddPastCapacity ==
    /\ result'.op = "add_config_lines"
    /\ result'.index >= config.data.max_number_of_lines

\* C13 as stated: add_config_lines with index >= max_number_of_lines returns
\* IndexGreaterThanLength and leaves the count as it was, whatever
\* max_number_of_lines is, 0 included.
C13_PastCapacityRefused ==
    [][AddPastCapacity =>
          /\ result'.err = "IndexGreaterThanLength"
          /\ get_config_count(config'.tail) = get_config_count(config.tail)]_vars

\* the same for configs with at least one slot
C13_PastCapacityRefusedFromOneSlot ==
    [][(AddPastCapacity /\ config.data.max_number_of_lines >= 1) =>
          /\ result'.err = "IndexGreaterThanLength"
          /\ config' = config]_vars

(***************************************************************************)
(* Properties of the candy machine account (Spec).                         *)
(***************************************************************************)
\* inputs of initialize_candy_machine that pass the account constraint and
\* every check made before the config is read
PassesEarlierChecks(data, w) ==
    /\ InitializeCandyMachineConstraints(lamports, w[1])
    /\ Len(data.uuid) = UUID_LENGTH
    /\ w[2].some => /\ TokenInitialized[w[1]]
                    /\ TokenMintOf[w[1]] = w[2].val

\* what initialize_candy_machine returns on the config as it is
CreateOutcome(data, w) ==
    initialize_candy_machine(config, config.authority, w[1], w[2], 254, data)

\* the config exists and its stored count is 0
EmptyLedger == config.exists /\ Header(config.tail) = Zeroes(4)

\* C14 as stated: while the stored count is 0, initialize_candy_machine with
\* inputs that pass the earlier checks returns ConfigMustHaveAtleastOneEntry.
C14_EmptyAlwaysConfigMustHaveEntry ==
    EmptyLedger =>
        \A data \in CandyMachineDataInputs, w \in WalletInputs :
            PassesEarlierChecks(data, w) =>
                CreateOutcome(data, w).err = "ConfigMustHaveAtleastOneEntry"

(***************************************************************************)
(* Properties of the count at the end of the u32 range (SpecCount).        *)
(***************************************************************************)
\* the errors add_config_lines returns before it computes the new count
BeforeCountErrors == { "IndexGreaterThanLength", "Panic", "ProgramFailedToComplete" }

\* C15 as stated: an add_config_lines whose batch would take the count past
\* u32::MAX is refused (with NumericalOverflowError, unless an earlier check
\* refuses it first) and the stored count stays as it was: a count truncated
\* modulo 2^32 is never stored.
C15_OverflowRefused ==
    [][(result'.op = "add_config_lines"
          /\ ExceedsU32(config.tail, Len(result'.config_lines))) =>
          /\ result'.err \in {"NumericalOverflowError"} \cup BeforeCountErrors
          /\ Header(config'.tail) = Header(config.tail)]_vars

(***************************************************************************)
(* Properties of the widths of the config lines (SpecLedger).              *)
(***************************************************************************)
\* slot i of `tail` holds a config line padded to the full widths
SlotWellFormed(tail, i) ==
    LET line == try_from_slice(SlotBytes(tail, i)) IN
    /\ line.err = "Ok"
    /\ Len(line.line.name) = MAX_NAME_LENGTH
    /\ Len(line.line.uri) = MAX_URI_LENGTH

\* a line of the batch has a name or a uri longer than its field
OverWidth(config_lines) ==
    \E i \in 1..Len(config_lines) :
        \/ Len(config_lines[i].name) > MAX_NAME_LENGTH
        \/ Len(config_lines[i].uri) > MAX_URI_LENGTH

\* C16: an add_config_lines whose batch holds a name longer than 32 bytes or
\* a uri longer than 200 bytes does not return Ok and leaves the config
\* account as it was; an add that returns Ok leaves the account at its size,
\* with every slot it wrote holding a 32-byte name and a 200-byte uri behind
\* their length prefixes, CONFIG_LINE_SIZE bytes in all.
C16_OverWidthRefused ==
    [][result'.op = "add_config_lines" =>
          /\ OverWidth(result'.config_lines) =>
                /\ result'.err # "Ok"
                /\ config' = config
          /\ result'.err = "Ok" =>
                /\ Len(config'.tail) = Len(config.tail)
                /\ \A i \in 1..Len(result'.config_lines) :
                      /\ SlotWellFormed(config'.tail, result'.index + i - 1)
                      /\ Len(SlotBytes(config'.tail, result'.index + i - 1)) =
                             4 + MAX_NAME_LENGTH + 4 + MAX_URI_LENGTH]_vars

\* a batch of a valid line followed by one with a uri of 201 bytes was refused
\* on a config that holds lines, at an index inside the config
C16_Witness ==
    /\ config.exists
    /\ LiveCount >= 1
    /\ result.op = "add_config_lines"
    /\ result.err # "Ok"
    /\ result.index < config.data.max_number_of_lines
    /\ Len(result.config_lines) = 2
    /\ Len(result.config_lines[2].uri) = MAX_URI_LENGTH + 1

(***************************************************************************)
(* Properties of what the instructions leave alone (Spec).                 *)
(***************************************************************************)
\* the step is a mint_nft instruction that returned Ok
MintOk == result'.op = "mint_nft" /\ result'.err = "Ok"

\* C17: a candy machine comes to exist only by an initialize_candy_machine
\* that returns Ok, with items_redeemed = 0; from then on a mint_nft that
\* returns Ok adds exactly 1 to items_redeemed and leaves authority, wallet,
\* token_mint, config, data (price, items_available, go_live_date, uuid) and
\* bump as they were, and every other step (add_config_lines,
\* initialize_config, a refused initialize_candy_machine or mint_nft, the
\* clock) leaves the whole account as it was.
C17_OnlyMintAdvancesCounter ==
    [][IF candy_machine.exists
       THEN IF MintOk
            THEN candy_machine' =
                     [candy_machine EXCEPT !.items_redeemed = @ + 1]
            ELSE candy_machine' = candy_machine
       ELSE candy_machine'.exists =>
               /\ result'.op = "initialize_candy_machine"
               /\ result'.err = "Ok"
               /\ candy_machine'.items_redeemed = 0]_vars

\* config lines were added after an item was minted, and the candy machine
\* still counts the one item
C17_Witness ==
    /\ candy_machine.exists
    /\ candy_machine.items_redeemed = 1
    /\ minted = 1
    /\ result.op = "add_config_lines"
    /\ result.err = "Ok"

\* the slots an add_config_lines at `index` with n lines writes
WrittenSlots(index, n) == index..(index + n - 1)

\* C18: add_config_lines leaves bump, authority and data of the config (which
\* lie before CONFIG_ARRAY_START) and the size of the account as they were,
\* changes no slot outside [index, index + n), and leaves the candy machine
\* and every balance alone; when it does not return Ok, or when index + n is
\* past max_number_of_lines, it changes nothing at all.
C18_AddWritesOnlyItsSlots ==
    [][result'.op = "add_config_lines" =>
          LET n == Len(result'.config_lines)
              lines == config.data.max_number_of_lines
          IN /\ ConfigSize(config.data) <= CONFIG_ARRAY_START
             /\ config'.data = config.data
             /\ config'.bump = config.bump
             /\ config'.authority = config.authority
             /\ Len(config'.tail) = Len(config.tail)
             /\ \A j \in (0..(lines - 1)) \ WrittenSlots(result'.index, n) :
                   SlotBytes(config'.tail, j) = SlotBytes(config.tail, j)
             /\ candy_machine' = candy_machine
             /\ lamports' = lamports
             /\ tokens' = tokens
             /\ result'.index + n > lines =>
                   /\ result'.err # "Ok"
                   /\ config' = config
             /\ result'.err # "Ok" => config' = config]_vars

\* a line was added in the last slot of a config whose earlier slots were
\* written before, and they still hold their lines
C18_Witness ==
    /\ config.exists
    /\ config.data.max_number_of_lines = MaxLines
    /\ result.op = "add_config_lines"
    /\ result.err = "Ok"
    /\ result.index = MaxLines - 1
    /\ Len(result.config_lines) = 1
    /\ \A j \in 0..(MaxLines - 2) : WellFormedSlot(j)

(***************************************************************************)
(* Properties of the config line a mint issues (SpecTemplates).            *)
(***************************************************************************)
\* the config line held in slot i
SlotLine(i) == try_from_slice(SlotBytes(config.tail, i))

\* C19: every mint_nft that returns Ok, whatever items_redeemed was before
\* it, passes to create_metadata_accounts the name and uri held in slot 0 of
\* the config account.
C19_MintIssuesSlotZero ==
    [][MintOk =>
          /\ SlotLine(0).err = "Ok"
          /\ result'.issued = Some(SlotLine(0).line)]_vars

\* the second mint from a config whose slots 0 and 1 hold different lines has
\* issued the line of slot 0
C19_Witness ==
    /\ candy_machine.exists
    /\ minted = 2
    /\ candy_machine.items_redeemed = 2
    /\ result.op = "mint_nft"
    /\ result.err = "Ok"
    /\ SlotLine(0).err = "Ok"
    /\ SlotLine(1).err = "Ok"
    /\ SlotLine(0).line # SlotLine(1).line
    /\ result.issued = Some(SlotLine(0).line)

(***************************************************************************)
(* Properties of reading config lines (SpecLedger).                        *)
(***************************************************************************)
\* C20 as stated: get_config_line returns a config line only for an index
\* below the stored count; at the count itself and at every slot after it,
\* it returns an error.
C20_ReadsOnlyBelowCount ==
    config.exists =>
        \A i \in 0..(config.data.max_number_of_lines - 1) :
            i >= LiveCount => get_config_line(config.tail, i).err # "Ok"

\* what holds at every index: a read strictly above the count is refused
\* with IndexGreaterThanLength, and a read at the count returns whatever slot
\* holds
C20_ReadsUpToCount ==
    config.exists =>
        \A i \in 0..(config.data.max_number_of_lines - 1) :
            get_config_line(config.tail, i) =
                IF i > LiveCount THEN [err |-> "IndexGreaterThanLength"]
                ELSE SlotLine(i)

(***************************************************************************)
(* Properties of the order of the checks of mint_nft (Spec).               *)
(***************************************************************************)
\* the payment of a mint_nft by `payer` from `token_account` would be
\* refused: on a sale paid in tokens the account is not initialized, holds
\* another mint or holds less than the price, and on a sale paid in lamports
\* the payer holds less than the price
CannotPay(payer, token_account) ==
    IF candy_machine.token_mint.some
    THEN \/ ~TokenInitialized[token_account]
         \/ TokenMintOf[token_account] # candy_machine.token_mint.val
         \/ tokens[token_account] < candy_machine.data.price
    ELSE lamports[payer] < candy_machine.data.price

\* C21: mint_nft checks the go_live_date, then the items, then the payment.
\* A payer that does not pass the go_live_date check is refused with
\* CandyMachineNotLiveYet, and one that passes it on a candy machine with
\* items_redeemed = items_available with CandyMachineEmpty, whatever the
\* state of the items in the first case and whether or not the payment could
\* be made in both; a payment error is returned only when both checks are
\* passed; and in the two refusals no lamports and no tokens move.
C21_WindowThenCapacityThenPayment ==
    [][MintStep =>
          LET payer == result'.payer
              payment_errors == { "Uninitialized", "IncorrectOwner", "MintMismatch",
                                  "NotEnoughTokens", "TokenTransferFailed",
                                  "NotEnoughSOL", "SystemTransferError" }
          IN /\ ~PassesWindow(payer) =>
                   /\ result'.err = "CandyMachineNotLiveYet"
                   /\ lamports' = lamports
                   /\ tokens' = tokens
             /\ (PassesWindow(payer) /\ SoldOut) =>
                   /\ result'.err = "CandyMachineEmpty"
                   /\ lamports' = lamports
                   /\ tokens' = tokens
             /\ result'.err \in payment_errors =>
                   /\ PassesWindow(payer)
                   /\ ~SoldOut
                   /\ CannotPay(payer, result'.token_account)
                        \/ result'.err \in DelegationErrors]_vars

\* a payer other than the authority, paying from a token account that holds
\* nothing, was refused as not live yet on a candy machine the authority had
\* sold out before the sale was live
C21_Witness ==
    /\ SoldOut
    /\ minted > 0
    /\ candy_machine.token_mint.some
    /\ ~PassesWindow("alice")
    /\ result.op = "mint_nft"
    /\ result.payer = "alice"
    /\ CannotPay("alice", result.token_account)
    /\ result.err = "CandyMachineNotLiveYet"

\* the authority, left with fewer lamports than the price, was refused as
\* empty on the candy machine it had sold out
C21_SoldOutBeforePayment ==
    /\ SoldOut
    /\ minted > 0
    /\ ~candy_machine.token_mint.some
    /\ result.op = "mint_nft"
    /\ result.payer = candy_machine.authority
    /\ CannotPay(result.payer, result.token_account)
    /\ result.err = "CandyMachineEmpty"

(***************************************************************************)
(* ConfigLine::try_from_slice on bytes that are not a serialized String.    *)
(***************************************************************************)
\* a name or uri that is not UTF-8 is refused, whatever else the bytes hold;
\* multi-byte characters that are well formed are read
Utf8Cases ==
    /\ try_from_slice(<< 1, 0, 0, 0, 255, 0, 0, 0, 0 >>).err = "BorshIoError"
    /\ try_from_slice(<< 0, 0, 0, 0, 2, 0, 0, 0, 195, 40 >>).err = "BorshIoError"
    /\ try_from_slice(<< 1, 0, 0, 0, 128, 1, 0, 0, 0, 117 >>).err = "BorshIoError"
    /\ try_from_slice(<< 3, 0, 0, 0, 237, 160, 128, 0, 0, 0, 0 >>).err = "BorshIoError"
    /\ try_from_slice(<< 2, 0, 0, 0, 192, 128, 0, 0, 0, 0 >>).err = "BorshIoError"
    /\ try_from_slice(<< 2, 0, 0, 0, 195, 169, 3, 0, 0, 0, 226, 130, 172 >>) =
           [err |-> "Ok",
            line |-> ConfigLine(<< 195, 169 >>, << 226, 130, 172 >>)]
    /\ try_from_slice(<< 4, 0, 0, 0, 240, 159, 141, 172, 0, 0, 0, 0 >>).err = "Ok"

====
